---------------------------- MODULE Spec2Model ----------------------------
(***************************************************************************)
(* State-machine model of src/main.py: ChatLockBot, a Telegram group-chat  *)
(* lock bot, together with the handler registration done in main().        *)
(*                                                                         *)
(* Bot state: locked_chats, original_permissions, required_reactions.      *)
(* Platform state (the Telegram side the bot calls into): the chat         *)
(* permissions, the set of restricted members and the reaction count of    *)
(* the trigger message of every chat.                                      *)
(* Every handler is cut at its awaits on platform calls: one action runs   *)
(* the handler from one suspension point to the next, and every platform   *)
(* call either succeeds or raises.  reply_text is the last await of every  *)
(* handler that uses it, so the reply is recorded with the step that       *)
(* builds its text.                                                        *)
(*                                                                         *)
(* Spec is one run of the process as main() starts it.  SpecLockUnlock is  *)
(* the Lock and Unlock handlers of one chat under either dispatch setting  *)
(* of the Application, SpecWithRestart is Spec with restarts of the        *)
(* process.                                                                *)
(***************************************************************************)
EXTENDS Integers, Sequences, FiniteSets, TLC

\* ------------------------------------------------------------------ bounds
MaxMsgId == 2           \* message ids are 1..MaxMsgId
MaxReactions == 5       \* reactions a trigger message can have collected

\* --------------------------------------------------------------- constants
REQUIRED_REACTIONS == 5

GroupChats == {1}                        \* group chats the bot is a member of
PrivateChats == {2}                      \* private chats with the bot
Chats == GroupChats \cup PrivateChats
Users == {"owner", "admin", "member"}    \* senders of updates
MsgIds == 1..MaxMsgId
Procs == {1, 2}                          \* slots for running handler invocations

\* telegram.constants.ChatMemberStatus values the platform can report
OWNER == "creator"
ADMINISTRATOR == "administrator"
MEMBER == "member"
RESTRICTED == "restricted"

\* ------------------------------------------------------------- permissions
PermFields == {"can_send_messages", "can_send_polls", "can_send_other_messages",
               "can_add_web_page_previews", "can_change_info", "can_invite_users",
               "can_pin_messages"}

\* restricted_permissions built in lock_chat
LockPermissions == [f \in PermFields |-> FALSE]

\* default_permissions built in unlock_chat
DefaultPermissions ==
    [f \in PermFields |-> f \notin {"can_change_info", "can_pin_messages"}]

\* ChatPermissions(can_send_messages=False) built in restrict_user_temporarily
UserRestriction == [f \in {"can_send_messages"} |-> FALSE]

\* permission sets a chat's administrators may have configured before any lock
PermsOpen == [f \in PermFields |-> TRUE]
PermsTextOnly == [f \in PermFields |-> f = "can_send_messages"]
InitialPerms == {PermsOpen, PermsTextOnly}

\* ------------------------------------------------------ command arguments
Digits == {"0", "1", "3"}
\* the first argument of a command, as a sequence of characters
Tokens == {<<"3">>, <<"1">>, <<"0">>, <<"0", "3">>, <<"+", "3">>, <<"-", "1">>,
           <<"-", "0">>, <<"-">>, <<"3", "a">>, <<"a", "b", "c">>}
\* context.args: only args[0] is ever read
ArgLists == {<<>>} \cup {<<t>> : t \in Tokens}

DigitValue(ch) == IF ch = "1" THEN 1 ELSE IF ch = "3" THEN 3 ELSE 0

RECURSIVE DigitsValue(_)
DigitsValue(s) ==
    IF s = <<>> THEN 0
    ELSE 10 * DigitsValue(SubSeq(s, 1, Len(s) - 1)) + DigitValue(s[Len(s)])

AllDigits(s) == Len(s) > 0 /\ \A i \in 1..Len(s) : s[i] \in Digits

\* int(token): [ok |-> FALSE] stands for ValueError
ParseInt(t) ==
    IF t # <<>> /\ t[1] = "-"
    THEN IF AllDigits(Tail(t))
         THEN [ok |-> TRUE, value |-> 0 - DigitsValue(Tail(t))]
         ELSE [ok |-> FALSE, value |-> 0]
    ELSE IF t # <<>> /\ t[1] = "+"
    THEN IF AllDigits(Tail(t))
         THEN [ok |-> TRUE, value |-> DigitsValue(Tail(t))]
         ELSE [ok |-> FALSE, value |-> 0]
    ELSE IF AllDigits(t)
         THEN [ok |-> TRUE, value |-> DigitsValue(t)]
         ELSE [ok |-> FALSE, value |-> 0]

\* ------------------------------------------------------------------ replies
NoReply == [kind |-> "none", message_id |-> 0, count |-> 0]
Reply(kind) == [kind |-> kind, message_id |-> 0, count |-> 0]
ReplyCount(kind, n) == [kind |-> kind, message_id |-> 0, count |-> n]

\* platform calls a handler has issued, in order, with their outcome
Call(api, ok) == [api |-> api, ok |-> ok]
Issued(t, api) == \E i \in 1..Len(t.calls) : t.calls[i].api = api
Succeeded(t, api) == \E i \in 1..Len(t.calls) : t.calls[i] = Call(api, TRUE)

\* ------------------------------------------------------------------ updates
\* where: which field carries the content; entity: the text has a "mention"
\* entity; names_bot: the content contains "@<bot username>"; reply_to_bot:
\* the message replies to a message of the bot.
MessageShapes ==
    {s \in [where : {"text", "caption", "none"}, entity : BOOLEAN,
            names_bot : BOOLEAN, reply_to_bot : BOOLEAN] :
        /\ s.where # "text" => ~s.entity
        /\ s.where = "none" => ~s.names_bot
        /\ (s.where = "text" /\ s.names_bot) => s.entity}

Commands == {"start", "status", "unlock", "set_reactions"}

Update(kind, command, args, c, u, m, s) ==
    [kind |-> kind, command |-> command, args |-> args, chat |-> c, user |-> u,
     msg |-> m, where |-> s.where, entity |-> s.entity, names_bot |-> s.names_bot,
     reply_to_bot |-> s.reply_to_bot]

CommandShape == [where |-> "text", entity |-> FALSE, names_bot |-> FALSE,
                 reply_to_bot |-> FALSE]

\* the updates the platform can deliver; no command handler reads the
\* message id of its command, which is left out of the update
CommandUpdates(cmd, arglists) ==
    {Update("command", cmd, a, c, u, 0, CommandShape) :
        a \in arglists, c \in Chats, u \in Users}

MessageUpdates ==
    {Update("message", "none", <<>>, c, u, m, s) :
        c \in Chats, u \in Users, m \in MsgIds, s \in MessageShapes}

\* is_mention or is_reply_to_bot, message_text being text or caption or ""
Addressed(t) ==
    \/ t.where \in {"text", "caption"} /\ t.names_bot
    \/ t.reply_to_bot

ChatType(c) == IF c \in GroupChats THEN "supergroup" ELSE "private"
InGroups(upd) == ChatType(upd.chat) \in {"group", "supergroup"}

\* main(): the handlers are all in one group, so the first whose filter
\* matches takes the update and the others never see it
Route(upd) ==
    IF upd.kind = "command" THEN upd.command \o "_command"
    ELSE IF upd.where = "text" /\ InGroups(upd) /\ upd.entity THEN "handle_mention"
    ELSE IF InGroups(upd) THEN "handle_message"
    ELSE "none"


\* ----------------------------------------------------------- dictionaries
SetKey(d, k, v) == [x \in DOMAIN d \cup {k} |-> IF x = k THEN v ELSE d[x]]
DelKey(d, k) == [x \in DOMAIN d \ {k} |-> d[x]]
EmptyDict == [x \in {} |-> 0]

\* -------------------------------------------------------------------- state
VARIABLES
    locked_chats,           \* self.locked_chats: chat_id -> trigger message_id
    original_permissions,   \* self.original_permissions: chat_id -> permissions
    required_reactions,     \* self.required_reactions
    chat_permissions,       \* platform: the permissions of every chat
    configured_permissions, \* platform: what the chat's admins configured
    restricted,             \* platform: members under a send restriction
    tasks,                  \* the handler invocation running in every slot
    bg_pc,                  \* check_reactions_periodically: where it stands
    concurrent_updates      \* Application setting: may handlers overlap

vars == <<locked_chats, original_permissions, required_reactions, chat_permissions,
          configured_permissions, restricted, tasks, bg_pc,
          concurrent_updates>>

botState == <<locked_chats, original_permissions, required_reactions>>
platformState == <<chat_permissions, restricted>>

\* the locals of a handler invocation, and what it has sent so far
IdleTask ==
    [pc |-> "idle", handler |-> "none", kind |-> "none", chat |-> 0, user |-> "none",
     msg |-> 0, args |-> <<>>, where |-> "none", entity |-> FALSE,
     names_bot |-> FALSE, reply_to_bot |-> FALSE, locked_on_arrival |-> FALSE,
     addressed |-> FALSE,
     admin |-> "unknown", perms |-> LockPermissions, captured |-> FALSE,
     lock_called |-> FALSE, reply |-> NoReply, calls |-> <<>>, raised |-> FALSE]

\* locked_on_arrival and addressed record what the update was: whether its
\* chat was locked when it came, and whether it addressed the bot.  Of the
\* content of the message only handle_mention reads anything.
NewTask(upd, pc) ==
    LET t == [IdleTask EXCEPT !.pc = pc, !.handler = Route(upd), !.kind = upd.kind,
                     !.chat = upd.chat, !.user = upd.user, !.msg = upd.msg,
                     !.args = upd.args,
                     !.locked_on_arrival = upd.chat \in DOMAIN locked_chats,
                     !.addressed = Addressed(upd)]
    IN IF Route(upd) = "handle_mention"
       THEN [t EXCEPT !.where = upd.where, !.entity = upd.entity,
                      !.names_bot = upd.names_bot, !.reply_to_bot = upd.reply_to_bot]
       ELSE t

\* a finished invocation keeps what it was given and what it sent; its
\* locals are gone
Finish(t, reply) ==
    [t EXCEPT !.pc = "done", !.reply = reply, !.msg = 0, !.args = <<>>,
              !.perms = LockPermissions, !.captured = FALSE, !.where = "none",
              !.entity = FALSE, !.names_bot = FALSE, !.reply_to_bot = FALSE]
\* mutant: lock_chat logs the error and returns, as unlock_chat does, and
\* handle_mention goes on to its confirmation
Raise_Swallowed(t) == Finish(t, Reply("chat_locked"))

\* an exception leaves the handler: nothing more is sent
Raise(t) == [Finish(t, NoReply) EXCEPT !.raised = TRUE]
WithCall(t, api, ok) == [t EXCEPT !.calls = Append(@, Call(api, ok))]

Idle(p) == tasks[p].pc \in {"idle", "done"}

\* mutant: the dispatcher starts a handler while another one is suspended,
\* whatever the setting
CanDispatch_IgnoresSetting(p) ==
    /\ Idle(p)
    /\ \A q \in Procs : q < p => ~Idle(q)

\* Application.builder().token(BOT_TOKEN).build(): concurrent_updates is off,
\* so an update is taken from the queue only when the previous one is handled
CanDispatch(p) ==
    /\ Idle(p)
    /\ \A q \in Procs : q < p => ~Idle(q)
    /\ (~concurrent_updates) => \A q \in Procs : Idle(q)

\* ------------------------------------------------------------------ platform
BOT_USER == "bot"

MemberStatus(c, u) ==
    IF c \in PrivateChats THEN MEMBER
    ELSE IF u = "owner" THEN OWNER
    ELSE IF u = "admin" THEN ADMINISTRATOR
    ELSE IF u \in restricted[c] THEN RESTRICTED
    ELSE MEMBER

\* the platform refuses to restrict an administrator
RestrictOutcomes(c, u) ==
    IF MemberStatus(c, u) \in {OWNER, ADMINISTRATOR} THEN {FALSE} ELSE BOOLEAN

\* mutant: is_admin lets everybody through when the lookup fails
IsAdmin_OpenOnFailure(ok, status) == ~ok \/ status \in {ADMINISTRATOR, OWNER}

\* is_admin: ok is whether get_chat_member returned, status what it returned
IsAdmin(ok, status) == ok /\ status \in {ADMINISTRATOR, OWNER}

Init ==
    /\ locked_chats = EmptyDict
    /\ original_permissions = EmptyDict
    /\ required_reactions = REQUIRED_REACTIONS
    /\ chat_permissions \in [GroupChats -> InitialPerms]
    /\ configured_permissions = chat_permissions
    /\ restricted = [c \in GroupChats |-> {}]
    /\ tasks = [p \in Procs |-> IdleTask]
    /\ bg_pc = "not_started"
    /\ concurrent_updates = FALSE

\* ------------------------------------------------------ /start and /status
StartReply(rr) == ReplyCount("start", rr)

StartCommand(p, upd) ==
    /\ CanDispatch(p)
    /\ Route(upd) = "start_command"
    /\ tasks' = [tasks EXCEPT ![p] =
                    Finish(NewTask(upd, "done"), StartReply(required_reactions))]
    /\ UNCHANGED <<botState, platformState, configured_permissions, bg_pc,
                   concurrent_updates>>

\* mutant: /status reports the default threshold, not the current one
StatusReply_DefaultThreshold(lc, rr, c) ==
    IF c \in DOMAIN lc
    THEN [kind |-> "status_locked", message_id |-> lc[c],
          count |-> REQUIRED_REACTIONS]
    ELSE Reply("status_unlocked")

\* status_command: the reply
StatusReply(lc, rr, c) ==
    IF c \in DOMAIN lc
    THEN [kind |-> "status_locked", message_id |-> lc[c], count |-> rr]
    ELSE Reply("status_unlocked")

StatusCommand(p, upd) ==
    /\ CanDispatch(p)
    /\ Route(upd) = "status_command"
    /\ tasks' = [tasks EXCEPT ![p] =
                    Finish(NewTask(upd, "done"),
                           StatusReply(locked_chats, required_reactions, upd.chat))]
    /\ UNCHANGED <<botState, platformState, configured_permissions, bg_pc,
                   concurrent_updates>>

\* ------------------------------------------------------------------ /unlock
UnlockCommand(p, upd) ==
    /\ CanDispatch(p)
    /\ Route(upd) = "unlock_command"
    /\ tasks' = [tasks EXCEPT ![p] = NewTask(upd, "unlock_is_admin")]
    /\ UNCHANGED <<botState, platformState, configured_permissions, bg_pc,
                   concurrent_updates>>

\* mutant: unlock_chat restores the default set whatever was captured
UnlockWrite_AlwaysDefault(op, c) ==
    [captured |-> c \in DOMAIN op, perms |-> DefaultPermissions]

\* unlock_chat up to its await: which permissions it is about to write
UnlockWrite(op, c) ==
    IF c \in DOMAIN op
    THEN [captured |-> TRUE, perms |-> op[c]]
    ELSE [captured |-> FALSE, perms |-> DefaultPermissions]

\* unlock_command after is_admin returned
UnlockIsAdminReturns(p, ok) ==
    LET t == tasks[p]
        admin == IsAdmin(ok, MemberStatus(t.chat, t.user))
        t1 == [WithCall(t, "get_chat_member", ok) EXCEPT
                  !.admin = IF admin THEN "yes" ELSE "no"]
        w == UnlockWrite(original_permissions, t.chat)
    IN /\ t.pc = "unlock_is_admin"
       /\ tasks' = [tasks EXCEPT ![p] =
            IF ~admin THEN Finish(t1, Reply("unlock_rejected"))
            ELSE IF t.chat \in DOMAIN locked_chats
            THEN [t1 EXCEPT !.pc = "unlock_set_permissions",
                            !.captured = w.captured, !.perms = w.perms]
            ELSE Finish(t1, Reply("not_locked"))]
       /\ UNCHANGED <<botState, platformState, configured_permissions, bg_pc,
                      concurrent_updates>>

\* mutant: unlock_chat forgets the del of its original_permissions entry
UnlockRegistries_KeepsCaptured(lc, op, c, captured, ok) ==
    IF ~ok \/ (captured /\ c \notin DOMAIN op)
    THEN [locked_chats |-> lc, original_permissions |-> op]
    ELSE [locked_chats |-> DelKey(lc, c), original_permissions |-> op]

\* mutant: unlock_chat forgets the chat even when its permission write failed
UnlockRegistries_ForgetsOnFailure(lc, op, c, captured, ok) ==
    [locked_chats |-> DelKey(lc, c),
     original_permissions |-> IF captured THEN DelKey(op, c) ELSE op]

\* unlock_chat after set_chat_permissions returned: the registries it leaves.
\* A failed write, or a KeyError of the del, ends in the except clause.
UnlockRegistries(lc, op, c, captured, ok) ==
    IF ~ok \/ (captured /\ c \notin DOMAIN op)
    THEN [locked_chats |-> lc, original_permissions |-> op]
    ELSE [locked_chats |-> DelKey(lc, c),
          original_permissions |-> IF captured THEN DelKey(op, c) ELSE op]

\* the reply of unlock_command once unlock_chat has returned
UnlockReply(ok) == Reply("unlocked_forced")

UnlockSetPermissionsReturns(p, ok) ==
    LET t == tasks[p]
        r == UnlockRegistries(locked_chats, original_permissions, t.chat,
                              t.captured, ok)
    IN /\ t.pc = "unlock_set_permissions"
       /\ chat_permissions' =
            IF ok THEN [chat_permissions EXCEPT ![t.chat] = t.perms]
            ELSE chat_permissions
       /\ locked_chats' = r.locked_chats
       /\ original_permissions' = r.original_permissions
       /\ tasks' = [tasks EXCEPT ![p] =
                       Finish(WithCall(t, "set_chat_permissions", ok), UnlockReply(ok))]
       /\ UNCHANGED <<required_reactions, restricted, configured_permissions, bg_pc,
                      concurrent_updates>>

\* ----------------------------------------------------------- /set_reactions
SetReactionsCommand(p, upd) ==
    /\ CanDispatch(p)
    /\ Route(upd) = "set_reactions_command"
    /\ tasks' = [tasks EXCEPT ![p] = NewTask(upd, "set_reactions_is_admin")]
    /\ UNCHANGED <<botState, platformState, configured_permissions, bg_pc,
                   concurrent_updates>>

\* mutant: the check is new_count < 0
ValidCount_AcceptsZero(r) == r.ok /\ ~(r.value < 0)

\* new_count < 1 raises ValueError, like a failed int()
ValidCount(r) == r.ok /\ ~(r.value < 1)

\* mutant: set_reactions_command goes on after the rejection
SetReactionsResult_NoAdminCheck(rr, admin, args) ==
    IF args = <<>>
    THEN [required_reactions |-> rr, reply |-> ReplyCount("set_current", rr)]
    ELSE IF ParseInt(args[1]).ok /\ ParseInt(args[1]).value >= 1
    THEN [required_reactions |-> ParseInt(args[1]).value,
          reply |-> IF admin THEN ReplyCount("set_ok", ParseInt(args[1]).value)
                    ELSE Reply("set_rejected")]
    ELSE [required_reactions |-> rr,
          reply |-> IF admin THEN Reply("set_invalid") ELSE Reply("set_rejected")]

\* set_reactions_command after is_admin returned: threshold and reply
SetReactionsResult(rr, admin, args) ==
    IF ~admin
    THEN [required_reactions |-> rr, reply |-> Reply("set_rejected")]
    ELSE IF args = <<>>
    THEN [required_reactions |-> rr, reply |-> ReplyCount("set_current", rr)]
    ELSE IF ValidCount(ParseInt(args[1]))
    THEN [required_reactions |-> ParseInt(args[1]).value,
          reply |-> ReplyCount("set_ok", ParseInt(args[1]).value)]
    ELSE [required_reactions |-> rr, reply |-> Reply("set_invalid")]

SetReactionsIsAdminReturns(p, ok) ==
    LET t == tasks[p]
        admin == IsAdmin(ok, MemberStatus(t.chat, t.user))
        r == SetReactionsResult(required_reactions, admin, t.args)
    IN /\ t.pc = "set_reactions_is_admin"
       /\ required_reactions' = r.required_reactions
       /\ tasks' = [tasks EXCEPT ![p] =
                       Finish([WithCall(t, "get_chat_member", ok) EXCEPT
                                  !.admin = IF admin THEN "yes" ELSE "no"],
                              r.reply)]
       /\ UNCHANGED <<locked_chats, original_permissions, platformState,
                      configured_permissions, bg_pc, concurrent_updates>>

\* ------------------------------------------------------------ handle_mention
HandleMention(p, upd) ==
    /\ CanDispatch(p)
    /\ Route(upd) = "handle_mention"
    /\ tasks' = [tasks EXCEPT ![p] = NewTask(upd, "mention_get_me")]
    /\ UNCHANGED <<botState, platformState, configured_permissions, bg_pc,
                   concurrent_updates>>

\* mutant: handle_mention does not look whether the chat is locked
AlreadyLocked_NeverLooks(lc, c) == FALSE

\* handle_mention: if chat_id in self.locked_chats
AlreadyLocked(lc, c) == c \in DOMAIN lc

\* handle_mention after get_me returned, up to the first await of lock_chat
MentionGetMeReturns(p, ok) ==
    LET t == tasks[p]
    IN /\ t.pc = "mention_get_me"
       /\ tasks' = [tasks EXCEPT ![p] =
            IF ~ok THEN Raise(t)
            ELSE IF ~Addressed(t) THEN Finish(t, NoReply)
            ELSE IF AlreadyLocked(locked_chats, t.chat)
            THEN Finish(t, Reply("already_locked"))
            ELSE [t EXCEPT !.pc = "lock_get_chat", !.lock_called = TRUE]]
       /\ UNCHANGED <<botState, platformState, configured_permissions, bg_pc,
                      concurrent_updates>>

\* mutant: lock_chat does not store the permissions it read
LockCapture_Forgets(op, c, current) == op

\* lock_chat: self.original_permissions[chat_id] = current_permissions
LockCapture(op, c, current) == SetKey(op, c, current)

\* lock_chat after get_chat returned
LockGetChatReturns(p, ok) ==
    LET t == tasks[p]
    IN /\ t.pc = "lock_get_chat"
       /\ original_permissions' =
            IF ok THEN LockCapture(original_permissions, t.chat,
                                   chat_permissions[t.chat])
            ELSE original_permissions
       /\ tasks' = [tasks EXCEPT ![p] =
            IF ok THEN [WithCall(t, "get_chat", TRUE) EXCEPT
                           !.pc = "lock_set_permissions", !.perms = LockPermissions]
            ELSE Raise(WithCall(t, "get_chat", FALSE))]
       /\ UNCHANGED <<locked_chats, required_reactions, platformState,
                      configured_permissions, bg_pc, concurrent_updates>>

\* lock_chat: self.locked_chats[chat_id] = trigger_message_id
LockRecord(lc, c, m) == SetKey(lc, c, m)

\* lock_chat after set_chat_permissions returned, and the reply of handle_mention
LockSetPermissionsReturns(p, ok) ==
    LET t == tasks[p]
        t1 == WithCall(t, "set_chat_permissions", ok)
    IN /\ t.pc = "lock_set_permissions"
       /\ chat_permissions' =
            IF ok THEN [chat_permissions EXCEPT ![t.chat] = t.perms]
            ELSE chat_permissions
       /\ locked_chats' = IF ok THEN LockRecord(locked_chats, t.chat, t.msg)
                          ELSE locked_chats
       /\ tasks' = [tasks EXCEPT ![p] =
            IF ok THEN Finish(t1, ReplyCount("chat_locked", required_reactions))
            ELSE Raise(t1)]
       /\ UNCHANGED <<original_permissions, required_reactions, restricted,
                      configured_permissions, bg_pc, concurrent_updates>>

\* ------------------------------------------------------------ handle_message
HandleMessage(p, upd) ==
    /\ CanDispatch(p)
    /\ Route(upd) = "handle_message"
    /\ tasks' = [tasks EXCEPT ![p] =
                    IF upd.chat \in DOMAIN locked_chats
                    THEN NewTask(upd, "message_is_admin")
                    ELSE Finish(NewTask(upd, "done"), NoReply)]
    /\ UNCHANGED <<botState, platformState, configured_permissions, bg_pc,
                   concurrent_updates>>

\* await self.is_admin(...) or user_id == context.bot.id
Exempt(admin, u) == admin \/ u = BOT_USER

MessageIsAdminReturns(p, ok) ==
    LET t == tasks[p]
        admin == IsAdmin(ok, MemberStatus(t.chat, t.user))
        t1 == [WithCall(t, "get_chat_member", ok) EXCEPT
                  !.admin = IF admin THEN "yes" ELSE "no"]
    IN /\ t.pc = "message_is_admin"
       /\ tasks' = [tasks EXCEPT ![p] =
            IF Exempt(admin, t.user) THEN Finish(t1, NoReply)
            ELSE [t1 EXCEPT !.pc = "message_delete"]]
       /\ UNCHANGED <<botState, platformState, configured_permissions, bg_pc,
                      concurrent_updates>>

\* handle_message after delete_message returned: restrict_user_temporarily is
\* called inside the same try, after the delete
MessageDeleteReturns(p, ok) ==
    LET t == tasks[p]
        t1 == WithCall(t, "delete_message", ok)
    IN /\ t.pc = "message_delete"
       /\ tasks' = [tasks EXCEPT ![p] =
            IF ok THEN [t1 EXCEPT !.pc = "message_restrict", !.perms = LockPermissions]
            ELSE Finish(t1, NoReply)]
       /\ UNCHANGED <<botState, platformState, configured_permissions, bg_pc,
                      concurrent_updates>>

\* restrict_user_temporarily after restrict_chat_member returned
MessageRestrictReturns(p, ok) ==
    LET t == tasks[p]
    IN /\ t.pc = "message_restrict"
       /\ ok \in RestrictOutcomes(t.chat, t.user)
       /\ restricted' = IF ok THEN [restricted EXCEPT ![t.chat] = @ \cup {t.user}]
                        ELSE restricted
       /\ tasks' = [tasks EXCEPT ![p] =
                       Finish(WithCall(t, "restrict_chat_member", ok), NoReply)]
       /\ UNCHANGED <<botState, chat_permissions, configured_permissions,
                      bg_pc, concurrent_updates>>

\* ----------------------------------------------- reactions and the periodic task
ReactionCounts == 0..MaxReactions

\* a reaction update for a message of chat c that now has n reactions:
\* handle_reaction_update is `pass`
ReactionUpdate(lc, c, n, rr) == lc

HandleReactionUpdate(c, n) ==
    /\ locked_chats' = ReactionUpdate(locked_chats, c, n, required_reactions)
    /\ UNCHANGED <<original_permissions, required_reactions, platformState,
                   configured_permissions, tasks, bg_pc, concurrent_updates>>

\* mutant: the scan unlocks the chats whose trigger message has the reactions
ReactionScan_AutoUnlock(lc, rs, rr) ==
    [c \in {x \in DOMAIN lc : rs[x] < rr} |-> lc[c]]

\* one pass of the for loop of check_reactions_periodically over
\* list(self.locked_chats.items()), rs being the reactions the trigger
\* messages have on the platform at that time: the body is `pass`
ReactionScan(lc, rs, rr) == lc

CheckReactionsPeriodically(rs) ==
    /\ locked_chats' = ReactionScan(locked_chats, rs, required_reactions)
    /\ bg_pc' = "sleeping"
    /\ UNCHANGED <<original_permissions, required_reactions, platformState,
                   configured_permissions, tasks, concurrent_updates>>

\* ------------------------------------------------------------ specification
Next ==
    \/ \E p \in Procs, upd \in CommandUpdates("start", {<<>>}) : StartCommand(p, upd)
    \/ \E p \in Procs, upd \in CommandUpdates("status", {<<>>}) : StatusCommand(p, upd)
    \/ \E p \in Procs, upd \in CommandUpdates("unlock", {<<>>}) : UnlockCommand(p, upd)
    \/ \E p \in Procs, ok \in BOOLEAN : UnlockIsAdminReturns(p, ok)
    \/ \E p \in Procs, ok \in BOOLEAN : UnlockSetPermissionsReturns(p, ok)
    \/ \E p \in Procs, upd \in CommandUpdates("set_reactions", ArgLists) :
            SetReactionsCommand(p, upd)
    \/ \E p \in Procs, ok \in BOOLEAN : SetReactionsIsAdminReturns(p, ok)
    \/ \E p \in Procs, upd \in MessageUpdates : HandleMention(p, upd)
    \/ \E p \in Procs, ok \in BOOLEAN : MentionGetMeReturns(p, ok)
    \/ \E p \in Procs, ok \in BOOLEAN : LockGetChatReturns(p, ok)
    \/ \E p \in Procs, ok \in BOOLEAN : LockSetPermissionsReturns(p, ok)
    \/ \E p \in Procs, upd \in MessageUpdates : HandleMessage(p, upd)
    \/ \E p \in Procs, ok \in BOOLEAN : MessageIsAdminReturns(p, ok)
    \/ \E p \in Procs, ok \in BOOLEAN : MessageDeleteReturns(p, ok)
    \/ \E p \in Procs, ok \in BOOLEAN : MessageRestrictReturns(p, ok)
    \/ \E c \in GroupChats, n \in ReactionCounts : HandleReactionUpdate(c, n)
    \/ \E rs \in [GroupChats -> ReactionCounts] : CheckReactionsPeriodically(rs)

Spec == Init /\ [][Next]_vars

\* ======================================================================
\* Properties
\* ======================================================================
RealAdmin(c, u) == MemberStatus(c, u) \in {OWNER, ADMINISTRATOR}

\* the step in which lock_chat, called for chat c by invocation p, returns
\* without raising
LockCompletes(p, c) ==
    /\ tasks[p].pc = "lock_set_permissions" /\ tasks[p].chat = c
    /\ tasks'[p].pc = "done" /\ ~tasks'[p].raised

\* the step in which unlock_chat, called for chat c by invocation p, returns
UnlockReturns(p, c) ==
    /\ tasks[p].pc = "unlock_set_permissions" /\ tasks[p].chat = c
    /\ tasks'[p].pc = "done"

\* UnlockReturns after a permission write that succeeded
UnlockSucceeds(p, c) ==
    UnlockReturns(p, c) /\ Succeeded(tasks'[p], "set_chat_permissions")

\* C1 as stated: when lock_chat(c, m) completes without raising, c is a key of
\* locked_chats, mapped to m, and of original_permissions; when unlock_chat(c)
\* returns, c is a key of neither.
C1_AsStated ==
    [][\A p \in Procs, c \in Chats :
        /\ LockCompletes(p, c) =>
            /\ c \in DOMAIN locked_chats' /\ locked_chats'[c] = tasks[p].msg
            /\ c \in DOMAIN original_permissions'
        /\ UnlockReturns(p, c) =>
            /\ c \notin DOMAIN locked_chats'
            /\ c \notin DOMAIN original_permissions']_vars

\* C1, amended: when lock_chat(c, m) completes without raising, c is a key of
\* locked_chats, mapped to m, and of original_permissions; when unlock_chat(c)
\* returns after its permission write succeeded, c is a key of neither, and
\* when it returns after a failed write both registries are as they were.
C1_LockUnlockRegistries ==
    [][\A p \in Procs, c \in Chats :
        /\ LockCompletes(p, c) =>
            /\ c \in DOMAIN locked_chats' /\ locked_chats'[c] = tasks[p].msg
            /\ c \in DOMAIN original_permissions'
        /\ UnlockSucceeds(p, c) =>
            /\ c \notin DOMAIN locked_chats'
            /\ c \notin DOMAIN original_permissions'
        /\ (UnlockReturns(p, c) /\ ~UnlockSucceeds(p, c)) =>
            /\ locked_chats' = locked_chats
            /\ original_permissions' = original_permissions]_vars

\* an /unlock whose permission write succeeded has just returned
C1_Witness ==
    \E p \in Procs :
        /\ tasks[p].pc = "done" /\ tasks[p].handler = "unlock_command"
        /\ Succeeded(tasks[p], "set_chat_permissions")
        /\ tasks[p].chat \notin DOMAIN locked_chats
        /\ tasks[p].chat \notin DOMAIN original_permissions

\* C2 as stated: a group message that arrives while its chat is locked, of
\* whatever kind, has a delete and a restrict call issued for it if its sender
\* is no admin, and neither if the sender is an admin.
C2_AsStated ==
    \A p \in Procs :
        LET t == tasks[p]
        IN (t.pc = "done" /\ t.chat \in GroupChats /\ t.locked_on_arrival) =>
            IF RealAdmin(t.chat, t.user)
            THEN ~Issued(t, "delete_message") /\ ~Issued(t, "restrict_chat_member")
            ELSE /\ Issued(t, "delete_message")
                 /\ Succeeded(t, "delete_message") => Issued(t, "restrict_chat_member")

\* C3 as stated: a group message that arrives while its chat is not locked and
\* that names the bot, in its text or its caption, or replies to the bot, has
\* lock_chat invoked for it.
C3_AsStated ==
    \A p \in Procs :
        LET t == tasks[p]
        IN (t.pc = "done" /\ t.kind = "message" /\ t.chat \in GroupChats
            /\ ~t.locked_on_arrival /\ t.addressed) => t.lock_called

\* the step in which set_reactions_command, run by invocation p, ends
SetReactionsReturns(p) ==
    tasks[p].pc = "set_reactions_is_admin" /\ tasks'[p].pc = "done"

\* the step in which invocation p starts on a new update
Dispatched(p) == Idle(p) /\ tasks'[p] # tasks[p]

\* positive integers and the argument that writes them
PositiveNumerals == {[token |-> <<"1">>, n |-> 1], [token |-> <<"3">>, n |-> 3]}

\* arguments that are an integer below 1, or no integer
InvalidTokens == {<<"0">>, <<"-", "1">>, <<"-", "0">>, <<"-">>, <<"3", "a">>,
                  <<"a", "b", "c">>}

\* C4: /set_reactions n, n a positive integer, from a user for whom the admin
\* check is false leaves required_reactions unchanged and replies with the
\* rejection; from a user for whom it is true it sets required_reactions to
\* n.  Both registries are unchanged, and /start and /status report, in
\* every chat, the threshold as it now is.
C4_SetReactionsAdminOnly ==
    /\ [][\A p \in Procs, x \in PositiveNumerals :
            (SetReactionsReturns(p) /\ tasks[p].args = <<x.token>>) =>
                /\ tasks'[p].admin = "no" =>
                    /\ required_reactions' = required_reactions
                    /\ tasks'[p].reply = Reply("set_rejected")
                /\ tasks'[p].admin = "yes" =>
                    /\ required_reactions' = x.n
                    /\ tasks'[p].reply = ReplyCount("set_ok", x.n)
                /\ UNCHANGED <<locked_chats, original_permissions>>]_vars
    /\ [](\A p \in Procs :
            LET t == tasks[p]
            IN /\ (t.pc = "done" /\ t.handler = "start_command") =>
                    t.reply = ReplyCount("start", required_reactions)
               /\ (t.pc = "done" /\ t.handler = "status_command"
                   /\ t.reply.kind = "status_locked") =>
                    t.reply.count = required_reactions)

\* /start in the private chat reports a threshold that an admin set in the group
C4_Witness ==
    \E p \in Procs :
        /\ tasks[p].pc = "done" /\ tasks[p].handler = "start_command"
        /\ tasks[p].chat \in PrivateChats
        /\ tasks[p].reply = ReplyCount("start", 3)
        /\ required_reactions = 3

\* C5 as stated: /set_reactions with an argument that is an integer below 1 or
\* no integer leaves required_reactions unchanged and replies with the
\* validation error; with no argument it leaves it unchanged and reports the
\* current value; required_reactions >= 1 in every reachable state.
C5_AsStated ==
    /\ [][\A p \in Procs :
            SetReactionsReturns(p) =>
                /\ (tasks[p].args # <<>> /\ tasks[p].args[1] \in InvalidTokens) =>
                    /\ required_reactions' = required_reactions
                    /\ tasks'[p].reply = Reply("set_invalid")
                /\ tasks[p].args = <<>> =>
                    /\ required_reactions' = required_reactions
                    /\ tasks'[p].reply =
                          ReplyCount("set_current", required_reactions)]_vars
    /\ [](required_reactions >= 1)

\* C5, amended: /set_reactions with an argument that is an integer below 1 or
\* no integer leaves required_reactions unchanged, and with no argument too;
\* a user for whom the admin check is true gets the validation error, or with
\* no argument the current value, and a user for whom it is false gets the
\* rejection; required_reactions >= 1 in every reachable state.
C5_InvalidCountRejected ==
    /\ [][\A p \in Procs :
            SetReactionsReturns(p) =>
                /\ (tasks[p].args # <<>> /\ tasks[p].args[1] \in InvalidTokens) =>
                    /\ required_reactions' = required_reactions
                    /\ tasks'[p].admin = "yes" =>
                          tasks'[p].reply = Reply("set_invalid")
                /\ tasks[p].args = <<>> =>
                    /\ required_reactions' = required_reactions
                    /\ tasks'[p].admin = "yes" =>
                          tasks'[p].reply =
                              ReplyCount("set_current", required_reactions)
                /\ tasks'[p].admin = "no" =>
                    tasks'[p].reply = Reply("set_rejected")]_vars
    /\ [](required_reactions >= 1)

\* an admin got the validation error while the threshold stood at a value
\* set earlier
C5_Witness ==
    \E p \in Procs :
        /\ tasks[p].pc = "done" /\ tasks[p].handler = "set_reactions_command"
        /\ tasks[p].admin = "yes" /\ tasks[p].reply = Reply("set_invalid")
        /\ required_reactions = 1

\* C6: /status in chat c replies unlocked exactly when c is no key of
\* locked_chats, and otherwise replies locked with locked_chats[c] and the
\* current required_reactions; /status and /start change neither registry nor
\* the threshold and issue no platform call, whoever sends them.
C6_StatusReportsLockState ==
    /\ [](\A p \in Procs :
            LET t == tasks[p]
            IN /\ (t.pc = "done" /\ t.handler = "status_command") =>
                    /\ t.reply.kind = "status_unlocked" <=>
                          t.chat \notin DOMAIN locked_chats
                    /\ t.chat \in DOMAIN locked_chats =>
                          t.reply = [kind |-> "status_locked",
                                     message_id |-> locked_chats[t.chat],
                                     count |-> required_reactions]
                    /\ t.calls = <<>>
               /\ (t.pc = "done" /\ t.handler = "start_command") => t.calls = <<>>)
    /\ [][\A p \in Procs :
            (Dispatched(p)
             /\ tasks'[p].handler \in {"status_command", "start_command"}) =>
                UNCHANGED <<botState, platformState>>]_vars

\* a plain member asked /status in a locked chat whose threshold an admin changed
C6_Witness ==
    \E p \in Procs :
        /\ tasks[p].pc = "done" /\ tasks[p].handler = "status_command"
        /\ tasks[p].user = "member"
        /\ tasks[p].reply = [kind |-> "status_locked", message_id |-> 2, count |-> 3]

\* C7: a chat enters locked_chats only in a lock_chat run by handle_mention,
\* and leaves it only in an /unlock of a user for whom the admin check is
\* true; no pass of check_reactions_periodically, no reaction update, no
\* ordinary message and no /status, /start or /set_reactions removes a chat,
\* whatever the number of reactions.
C7_OnlyMentionLocksOnlyAdminUnlocks ==
    [][\A c \in Chats :
        /\ (c \notin DOMAIN locked_chats /\ c \in DOMAIN locked_chats') =>
            \E p \in Procs :
                LockCompletes(p, c) /\ tasks[p].handler = "handle_mention"
        /\ (c \in DOMAIN locked_chats /\ c \notin DOMAIN locked_chats') =>
            \E p \in Procs :
                /\ UnlockReturns(p, c) /\ tasks[p].handler = "unlock_command"
                /\ tasks[p].admin = "yes"]_vars

\* the periodic task has run, the chat is locked, and the threshold is one that
\* the reactions on a trigger message can reach
C7_Witness ==
    /\ bg_pc = "sleeping"
    /\ 1 \in DOMAIN locked_chats
    /\ required_reactions <= MaxReactions

\* C8: in every reachable state, the states at the awaits inside lock_chat and
\* unlock_chat and after failed platform calls included, every key of
\* locked_chats is a key of original_permissions.
C8_LockedHasCapturedPermissions ==
    DOMAIN locked_chats \subseteq DOMAIN original_permissions

\* unlock_chat waits for its permission write, the chat still locked
C8_Witness ==
    \E p \in Procs :
        /\ tasks[p].pc = "unlock_set_permissions"
        /\ tasks[p].chat \in DOMAIN locked_chats

\* C9 as stated: between handler invocations, every key of
\* original_permissions is a key of locked_chats.
C9_AsStated ==
    (\A p \in Procs : Idle(p)) =>
        DOMAIN original_permissions \subseteq DOMAIN locked_chats

\* C10: the platform permissions of a chat are the restrictive set while it is
\* in locked_chats and otherwise the set P it had before the Lock; the set a
\* Lock captured is P, the set an Unlock writes is the set captured, and after
\* a successful Unlock the chat has P again.
C10_RoundTrip ==
    /\ \A c \in GroupChats :
        /\ chat_permissions[c] =
              IF c \in DOMAIN locked_chats THEN LockPermissions
              ELSE configured_permissions[c]
        /\ c \in DOMAIN locked_chats =>
              original_permissions[c] = configured_permissions[c]
    /\ \A p \in Procs :
        LET t == tasks[p]
        IN /\ t.pc = "unlock_set_permissions" =>
                t.captured /\ t.perms = configured_permissions[t.chat]
           /\ (t.pc = "done" /\ t.handler = "unlock_command"
               /\ Succeeded(t, "set_chat_permissions")) =>
                chat_permissions[t.chat] = configured_permissions[t.chat]

\* a chat that allowed text only has been locked and unlocked again
C10_Witness ==
    \E p \in Procs :
        /\ tasks[p].pc = "done" /\ tasks[p].handler = "unlock_command"
        /\ Succeeded(tasks[p], "set_chat_permissions")
        /\ chat_permissions[tasks[p].chat] = PermsTextOnly

\* the step in which lock_chat, called for chat c by invocation p, ends
\* because get_chat or set_chat_permissions failed
LockFails(p, c) ==
    /\ tasks[p].pc \in {"lock_get_chat", "lock_set_permissions"}
    /\ tasks[p].chat = c
    /\ tasks'[p].pc = "done"
    /\ ~Succeeded(tasks'[p], "set_chat_permissions")

\* a finished handle_mention whose lock_chat raised
FailedLock(t, c) ==
    /\ t.pc = "done" /\ t.handler = "handle_mention" /\ t.chat = c
    /\ t.lock_called /\ t.raised

\* C11: when get_chat or set_chat_permissions fails inside lock_chat, the
\* error leaves lock_chat and handle_mention, the chat is not put into
\* locked_chats, the platform permissions stay, and no "chat locked"
\* confirmation is sent; a /status that comes next reports the chat unlocked,
\* and a mention of the bot that comes while the chat is out of locked_chats
\* calls lock_chat again.
C11_FailedLockLeavesUnlocked ==
    /\ [][\A p \in Procs, c \in Chats :
            LockFails(p, c) =>
                /\ tasks'[p].raised
                /\ tasks'[p].reply = NoReply
                /\ locked_chats' = locked_chats
                /\ c \notin DOMAIN locked_chats'
                /\ chat_permissions' = chat_permissions]_vars
    /\ [](\A p \in Procs, c \in Chats :
            FailedLock(tasks[p], c) => c \notin DOMAIN locked_chats)
    /\ [][\A p \in Procs, c \in Chats :
            /\ (/\ FailedLock(tasks[p], c)
                /\ tasks'[p].pc = "done" /\ tasks'[p].handler = "status_command"
                /\ tasks'[p].chat = c)
               => tasks'[p].reply = Reply("status_unlocked")
            /\ (/\ tasks[p].pc = "mention_get_me" /\ tasks[p].chat = c
                /\ tasks[p].addressed /\ c \notin DOMAIN locked_chats
                /\ tasks'[p].pc # "mention_get_me" /\ ~tasks'[p].raised)
               => /\ tasks'[p].pc = "lock_get_chat"
                  /\ tasks'[p].lock_called]_vars

\* lock_chat read the permissions, and its permission write failed
C11_Witness ==
    \E p \in Procs :
        /\ FailedLock(tasks[p], tasks[p].chat)
        /\ Issued(tasks[p], "set_chat_permissions")
        /\ tasks[p].chat \notin DOMAIN locked_chats

\* C12: unlock_chat never lets an error out: when it returns, no exception
\* has left unlock_command, which goes on to its reply; and when the
\* permission write failed, locked_chats and original_permissions are exactly
\* as they were before.
C12_UnlockSwallowsErrors ==
    [][\A p \in Procs, c \in Chats :
        UnlockReturns(p, c) =>
            /\ ~tasks'[p].raised
            /\ tasks'[p].reply # NoReply
            /\ ~UnlockSucceeds(p, c) =>
                /\ locked_chats' = locked_chats
                /\ original_permissions' = original_permissions]_vars

\* unlock_chat has returned from a failed permission write; the chat is
\* still in both registries
C12_Witness ==
    \E p \in Procs :
        LET t == tasks[p]
        IN /\ t.pc = "done" /\ t.handler = "unlock_command"
           /\ Issued(t, "set_chat_permissions")
           /\ ~Succeeded(t, "set_chat_permissions")
           /\ ~t.raised
           /\ t.chat \in DOMAIN locked_chats
           /\ t.chat \in DOMAIN original_permissions

\* C13 as stated: whenever /unlock has answered with the forced-unlock
\* success for chat c, c is no longer in locked_chats and the platform
\* permissions of c are the ones it had before the Lock.
C13_AsStated ==
    \A p \in Procs :
        LET t == tasks[p]
        IN (/\ t.pc = "done" /\ t.handler = "unlock_command"
            /\ t.reply = Reply("unlocked_forced")) =>
                /\ t.chat \notin DOMAIN locked_chats
                /\ chat_permissions[t.chat] = configured_permissions[t.chat]

\* C14 as stated: in handle_message the delete and the restriction are
\* independent: once the message of a sender who is not exempt has been
\* handled, both calls have been issued whatever the outcome of the delete,
\* and no error has left the handler.
C14_AsStated ==
    \A p \in Procs :
        LET t == tasks[p]
        IN (/\ t.pc = "done" /\ t.handler = "handle_message"
            /\ Issued(t, "delete_message")) =>
                /\ Issued(t, "restrict_chat_member")
                /\ ~t.raised

\* the member lookup of is_admin failed in invocation t
LookupFailed(t) ==
    Issued(t, "get_chat_member") /\ ~Succeeded(t, "get_chat_member")

\* C15: is_admin answers true exactly when get_chat_member returned and the
\* status it returned is administrator or owner; when the lookup fails it
\* answers false for everybody.  So while the lookup fails /unlock and
\* /set_reactions are rejected for every user and change nothing, and the
\* message of a real admin in a locked chat is handled like anybody's: the
\* delete is issued and, after it, the restriction of the sender.
C15_AdminCheckFailsClosed ==
    /\ [](\A p \in Procs :
            LET t == tasks[p]
            IN /\ t.admin # "unknown" <=> Issued(t, "get_chat_member")
               /\ t.admin = "yes" <=>
                    (Succeeded(t, "get_chat_member") /\ RealAdmin(t.chat, t.user))
               /\ (t.pc = "done" /\ LookupFailed(t)) =>
                    /\ t.admin = "no"
                    /\ t.handler = "unlock_command" =>
                         /\ t.reply = Reply("unlock_rejected")
                         /\ ~Issued(t, "set_chat_permissions")
                    /\ t.handler = "set_reactions_command" =>
                         t.reply = Reply("set_rejected")
                    /\ t.handler = "handle_message" =>
                         /\ Issued(t, "delete_message")
                         /\ Succeeded(t, "delete_message") =>
                              Issued(t, "restrict_chat_member"))
    /\ [][\A p \in Procs :
            (/\ tasks[p].pc \in {"unlock_is_admin", "set_reactions_is_admin"}
             /\ tasks'[p].pc = "done"
             /\ LookupFailed(tasks'[p])) =>
                UNCHANGED <<botState, platformState>>]_vars

\* the lookup failed for a message of the owner or an admin in a locked
\* chat: the message was deleted and the restriction issued
C15_Witness ==
    \E p \in Procs :
        LET t == tasks[p]
        IN /\ t.pc = "done" /\ t.handler = "handle_message"
           /\ RealAdmin(t.chat, t.user) /\ LookupFailed(t)
           /\ Succeeded(t, "delete_message")
           /\ Issued(t, "restrict_chat_member")

\* C16: a mention of the bot, or a reply to it, that handle_mention handles
\* while the chat is in locked_chats calls no lock_chat: it issues no
\* platform call, leaves the registries, the threshold and the platform
\* state as they are and answers "already locked".  So as long as a chat
\* stays in locked_chats its trigger message id and its captured permission
\* set do not change, and the captured set is never the restrictive set the
\* bot wrote itself.
C16_MentionWhileLockedIsNoOp ==
    /\ [][\A p \in Procs :
            (/\ tasks[p].pc = "mention_get_me" /\ tasks[p].addressed
             /\ tasks[p].chat \in DOMAIN locked_chats
             /\ tasks'[p].pc # "mention_get_me" /\ ~tasks'[p].raised) =>
                /\ tasks'[p].pc = "done"
                /\ tasks'[p].reply = Reply("already_locked")
                /\ ~tasks'[p].lock_called
                /\ tasks'[p].calls = <<>>
                /\ UNCHANGED <<botState, platformState>>]_vars
    /\ [][\A c \in Chats :
            (c \in DOMAIN locked_chats /\ c \in DOMAIN locked_chats') =>
                /\ locked_chats'[c] = locked_chats[c]
                /\ c \in DOMAIN original_permissions
                /\ c \in DOMAIN original_permissions'
                /\ original_permissions'[c] = original_permissions[c]]_vars
    /\ [](\A c \in DOMAIN original_permissions :
            original_permissions[c] # LockPermissions)

\* a second mention in a locked chat has been answered "already locked"; the
\* chat still has the trigger of the first
C16_Witness ==
    \E p \in Procs :
        LET t == tasks[p]
        IN /\ t.pc = "done" /\ t.handler = "handle_mention"
           /\ t.reply = Reply("already_locked")
           /\ t.chat \in DOMAIN locked_chats
           /\ original_permissions[t.chat] = configured_permissions[t.chat]

\* ======================================================================
\* Lock and Unlock of one chat, with and without overlapping handlers
\* ======================================================================
\* main() builds the Application with concurrent_updates off.  To see what
\* the handlers themselves guarantee, this specification also starts from an
\* Application with concurrent_updates on, where the dispatcher takes the
\* next update while a handler is suspended in a platform call.
InitEitherDispatch ==
    /\ locked_chats = EmptyDict
    /\ original_permissions = EmptyDict
    /\ required_reactions = REQUIRED_REACTIONS
    /\ chat_permissions \in [GroupChats -> InitialPerms]
    /\ configured_permissions = chat_permissions
    /\ restricted = [c \in GroupChats |-> {}]
    /\ tasks = [p \in Procs |-> IdleTask]
    /\ bg_pc = "not_started"
    /\ concurrent_updates \in BOOLEAN

\* the updates of the race: a member names the bot in a text of the group,
\* an admin sends /unlock there
RacingMentions ==
    {upd \in MessageUpdates :
        /\ Route(upd) = "handle_mention" /\ upd.names_bot /\ ~upd.reply_to_bot
        /\ upd.user = "member"}
RacingUnlocks ==
    {upd \in CommandUpdates("unlock", {<<>>}) :
        upd.chat \in GroupChats /\ upd.user = "admin"}

NextLockUnlock ==
    \/ \E p \in Procs, upd \in RacingMentions : HandleMention(p, upd)
    \/ \E p \in Procs, ok \in BOOLEAN : MentionGetMeReturns(p, ok)
    \/ \E p \in Procs, ok \in BOOLEAN : LockGetChatReturns(p, ok)
    \/ \E p \in Procs, ok \in BOOLEAN : LockSetPermissionsReturns(p, ok)
    \/ \E p \in Procs, upd \in RacingUnlocks : UnlockCommand(p, upd)
    \/ \E p \in Procs, ok \in BOOLEAN : UnlockIsAdminReturns(p, ok)
    \/ \E p \in Procs, ok \in BOOLEAN : UnlockSetPermissionsReturns(p, ok)

SpecLockUnlock == InitEitherDispatch /\ [][NextLockUnlock]_vars

\* what every run of Lock and Unlock handlers one after the other leaves
\* behind: a chat has the restrictive set exactly while it is in
\* locked_chats and otherwise the permissions configured for it, a locked
\* chat has a captured set, and a captured set is the configured one, never
\* the restrictive set
SerialOutcome ==
    \A c \in GroupChats :
        /\ chat_permissions[c] =
              IF c \in DOMAIN locked_chats THEN LockPermissions
              ELSE configured_permissions[c]
        /\ c \in DOMAIN locked_chats => c \in DOMAIN original_permissions
        /\ c \in DOMAIN original_permissions =>
              /\ original_permissions[c] = configured_permissions[c]
              /\ original_permissions[c] # LockPermissions

C18_AsStated ==
    \A p \in Procs :
        LET t == tasks[p]
        IN (/\ t.pc = "done" /\ t.handler = "unlock_command"
            /\ Succeeded(t, "set_chat_permissions")) =>
                restricted[t.chat] = {}

\* ======================================================================
\* The process is restarted
\* ======================================================================
\* mutant: the bot state is kept over a restart
BotAfterRestart_Persisted(lc, op, rr) ==
    [locked_chats |-> lc, original_permissions |-> op, required_reactions |-> rr]

\* ChatLockBot() of the new process: nothing of the old one is read back
BotAfterRestart(lc, op, rr) ==
    [locked_chats |-> EmptyDict, original_permissions |-> EmptyDict,
     required_reactions |-> REQUIRED_REACTIONS]

\* the process ends, whatever its handlers were doing, and main() runs
\* again; the platform keeps what it has
Restart ==
    LET b == BotAfterRestart(locked_chats, original_permissions, required_reactions)
    IN /\ locked_chats' = b.locked_chats
       /\ original_permissions' = b.original_permissions
       /\ required_reactions' = b.required_reactions
       /\ tasks' = [p \in Procs |-> IdleTask]
       /\ bg_pc' = "not_started"
       /\ UNCHANGED <<platformState, configured_permissions, concurrent_updates>>

NextWithRestart == Next \/ Restart

SpecWithRestart == Init /\ [][NextWithRestart]_vars

\* chat c has the restrictive set on the platform, and the bot holds no
\* other permission set for it: what a restart during a lock leaves
Lost(c) ==
    /\ chat_permissions[c] = LockPermissions
    /\ chat_permissions[c] # configured_permissions[c]
    /\ c \in DOMAIN locked_chats => c \in DOMAIN original_permissions
    /\ c \in DOMAIN original_permissions =>
          original_permissions[c] = LockPermissions

\* C19: a restart empties both registries and puts the threshold back to 5;
\* when it comes while chat c is locked, c keeps the restrictive set on the
\* platform, a /status then reports c unlocked and an admin's /unlock answers
\* "not locked" without a permission write; and from then on, whatever the
\* bot does (a Lock by a mention and an admin's /unlock included), the
\* platform permissions of c stay the restrictive set and never are again
\* the ones c had before the Lock.
C19_RestartLosesTheLock ==
    /\ [][Restart =>
            /\ locked_chats' = EmptyDict /\ original_permissions' = EmptyDict
            /\ required_reactions' = REQUIRED_REACTIONS
            /\ \A c \in GroupChats :
                  (c \in DOMAIN locked_chats /\ chat_permissions[c] = LockPermissions)
                      => Lost(c)']_vars
    /\ [][\A c \in GroupChats : Lost(c) => Lost(c)']_vars
    /\ [][\A p \in Procs :
            LET t == tasks'[p]
            IN (/\ t # tasks[p] /\ t.pc = "done" /\ t.chat \in GroupChats
                /\ Lost(t.chat) /\ t.chat \notin DOMAIN locked_chats) =>
                  /\ t.handler = "status_command" =>
                        t.reply = Reply("status_unlocked")
                  /\ (t.handler = "unlock_command" /\ t.admin = "yes") =>
                        /\ t.reply = Reply("not_locked")
                        /\ ~Issued(t, "set_chat_permissions")]_vars

\* after a restart during a lock the chat was locked again by a mention and
\* unlocked by an admin: the permission write succeeded and the chat still
\* has the restrictive set
C19_Witness ==
    \E p \in Procs :
        LET t == tasks[p]
        IN /\ t.pc = "done" /\ t.handler = "unlock_command"
           /\ Succeeded(t, "set_chat_permissions")
           /\ t.chat \notin DOMAIN locked_chats
           /\ chat_permissions[t.chat] = LockPermissions
           /\ configured_permissions[t.chat] = PermsOpen

=============================================================================
